---- MODULE Spec2Model ----
(***************************************************************************)
(* Model of sherlock.codelib.analyzer.CodeAnalyzer: the type-inference     *)
(* pass over a parsed module.  One action per top-level statement handled  *)
(* by CodeAnalyzer.analysis(); the recursive helpers get_type,             *)
(* get_function_return_type, analysis_function and analysis_assign_node    *)
(* are recursive operators that thread the analyzer object `self`          *)
(* (Function Table, module Variable Table) and an event trace.             *)
(***************************************************************************)
EXTENDS Integers, Sequences, FiniteSets, TLC

VARIABLES module_node, functions, variables, pc, err, trace, generator

vars == <<module_node, functions, variables, pc, err, trace, generator>>

(* ------------------------------ bounds --------------------------------- *)
\* nesting depth of function-body passes at which the interpreter's
\* recursion limit is hit (RecursionError)
RecursionLimit == 3
\* number of top-level statements between the function definitions
MaxStmts == 2
\* number of top-level assignments in the variable-only modules
MaxAssigns == 3
\* number of arguments of a call to f
MaxArgs == 1

(* ------------------------------ types ---------------------------------- *)
Type_NUMBER == "NUMBER"
Type_STRING == "STRING"
Type_LIST == "LIST"
Type_VOID == "VOID"
Types == {Type_NUMBER, Type_STRING, Type_LIST, Type_VOID}
\* Python's None, what get_type returns when no branch matches
None == "None"

IsNumber(t) == t = Type_NUMBER

(* ------------------------------ AST nodes ------------------------------ *)
Num == [kind |-> "Num"]
Str == [kind |-> "Str"]
List == [kind |-> "List"]
Compare == [kind |-> "Compare"]
Tuple == [kind |-> "Tuple"]
NoValue == [kind |-> "NoneType"]
Name(id) == [kind |-> "Name", id |-> id]
BinOp(op, left, right) == [kind |-> "BinOp", op |-> op, left |-> left, right |-> right]
UnaryOp(operand) == [kind |-> "UnaryOp", operand |-> operand]
Call(func, args) == [kind |-> "Call", func |-> func, args |-> args]

Assign(targets, value) == [kind |-> "Assign", targets |-> targets, value |-> value]
Expr(value) == [kind |-> "Expr", value |-> value]
Return(value) == [kind |-> "Return", value |-> value]
FunctionDef(name, args, body) == [kind |-> "FunctionDef", name |-> name, args |-> args, body |-> body]
ImportFrom == [kind |-> "ImportFrom"]
Pass == [kind |-> "Pass"]

(* ------------------------------ symbol tables -------------------------- *)
Variable(name, var_type) == [name |-> name, var_type |-> var_type]

VariablesHas(vs, name) == \E i \in 1..Len(vs) : vs[i].name = name

VariablesGet(vs, name) ==
    vs[CHOOSE i \in 1..Len(vs) : vs[i].name = name /\ \A j \in 1..(i-1) : vs[j].name # name]

VariablesAppend(vs, v) ==
    IF VariablesHas(vs, v.name)
    THEN [i \in 1..Len(vs) |-> IF vs[i].name = v.name THEN v ELSE vs[i]]
    ELSE Append(vs, v)

Function(name, args_type, return_type, gen) ==
    [name |-> name, args_type |-> args_type, return_type |-> return_type, generator |-> gen]

FunctionsHas(fs, name) == \E i \in 1..Len(fs) : fs[i].name = name

FunctionsGet(fs, name) ==
    fs[CHOOSE i \in 1..Len(fs) : fs[i].name = name /\ \A j \in 1..(i-1) : fs[j].name # name]

FunctionsAppend(fs, f) == Append(fs, f)

IsArgsTypeMatch(function, args_type) == function.args_type = args_type

CodeGenerator(vs) == [variables |-> vs]

(* ------------------------------ built-in oracle ------------------------ *)
SystemFunctionNames == {"print"}
IsSystemFunction(name) == name \in SystemFunctionNames
SystemFunctionReturnType(name) == Type_VOID

(* ------------------------------ results -------------------------------- *)
\* a raised exception: its class and the argument that identifies the culprit
Error(class, arg) == [class |-> class, arg |-> arg]
NoError == Error("", "")

Ret(t, s) == [type |-> t, err |-> NoError, s |-> s]
Raise(e, s) == [type |-> None, err |-> e, s |-> s]
Log(s, e) == [s EXCEPT !.trace = Append(@, e)]

RECURSIVE GetType(_, _, _)
RECURSIVE GetArgsType(_, _, _)
RECURSIVE GetFunctionReturnType(_, _, _, _)
RECURSIVE AnalysisFunctionBody(_, _, _, _, _, _)

(* `left_type.is_number and right_type.is_number`: reading is_number of    *)
(* None raises AttributeError; `and` skips the right operand when the left *)
(* one is false.                                                           *)
BothNumber(left_type, right_type) ==
    IF left_type = None THEN "AttributeError"
    ELSE IF ~IsNumber(left_type) THEN "False"
    ELSE IF right_type = None THEN "AttributeError"
    ELSE IF IsNumber(right_type) THEN "True" ELSE "False"

\* mutant: "add" handled by the generic arithmetic rule
GetTypeBinOpStrict(op, left_type, right_type, s) ==
    LET b == BothNumber(left_type, right_type) IN
    IF b = "AttributeError" THEN Raise(Error("AttributeError", ""), s)
    ELSE IF b = "True" THEN Ret(Type_NUMBER, s)
    ELSE Raise(Error("CompileError", op), s)

\* mutant: every operator handled by the "add" rule
GetTypeBinOpLenient(op, left_type, right_type, s) ==
    LET b == BothNumber(left_type, right_type) IN
    IF b = "AttributeError" THEN Raise(Error("AttributeError", ""), s)
    ELSE IF b = "True" THEN Ret(Type_NUMBER, s) ELSE Ret(Type_STRING, s)

GetTypeBinOp(op, left_type, right_type, s) ==
    LET b == BothNumber(left_type, right_type) IN
    IF op = "Add"
    THEN IF b = "AttributeError" THEN Raise(Error("AttributeError", ""), s)
         ELSE IF b = "True" THEN Ret(Type_NUMBER, s) ELSE Ret(Type_STRING, s)
    ELSE IF b = "AttributeError" THEN Raise(Error("AttributeError", ""), s)
         ELSE IF b = "True" THEN Ret(Type_NUMBER, s)
         ELSE Raise(Error("CompileError", op), s)

\* the branch reads the unbound name `operand`
GetTypeUnaryOp(node, s) == Raise(Error("NameError", ""), s)

\* always the analyzer's own (module) table
\* mutant: the most recently added entry instead of the entry of that name
GetTypeNameLast(node, s) ==
    IF VariablesHas(s.variables, node.id)
    THEN Ret(s.variables[Len(s.variables)].var_type, s)
    ELSE Raise(Error("UnresolvedName", ""), s)

GetTypeName(node, s) ==
    IF VariablesHas(s.variables, node.id)
    THEN Ret(VariablesGet(s.variables, node.id).var_type, s)
    ELSE Raise(Error("UnresolvedName", ""), s)

\* mutant: the built-in is cached like an analysed function
ResolveSystemCached(function_name, s) ==
    Ret(SystemFunctionReturnType(function_name),
        [s EXCEPT !.functions = FunctionsAppend(@,
            Function(function_name, <<>>, SystemFunctionReturnType(function_name),
                     CodeGenerator(<<>>)))])

ResolveSystem(function_name, s) == Ret(SystemFunctionReturnType(function_name), s)

\* mutant: a cached name falls through to the unknown-callee default
ResolveCachedDefault(function, function_name, args_type, s) ==
    IF IsArgsTypeMatch(function, args_type)
    THEN Ret(Type_STRING, s)
    ELSE Raise(Error("ParamTypeMismatchError", function_name), s)

\* mutant: other argument types add a second entry for the name
ResolveCachedOverload(function, function_name, args_type, s) ==
    IF IsArgsTypeMatch(function, args_type)
    THEN Ret(function.return_type, s)
    ELSE Ret(function.return_type,
             [s EXCEPT !.functions = FunctionsAppend(@,
                 Function(function_name, args_type, function.return_type,
                          function.generator))])

\* mutant: the cached entry is used without comparing the argument types
ResolveCachedNoCheck(function, function_name, args_type, s) ==
    Ret(function.return_type, s)

ResolveCached(function, function_name, args_type, s) ==
    IF IsArgsTypeMatch(function, args_type)
    THEN Ret(function.return_type, s)
    ELSE Raise(Error("ParamTypeMismatchError", function_name), s)

\* mutant: the unknown callee is cached like an analysed function
ResolveDefaultCached(function_name, args_type, s) ==
    Ret(Type_STRING,
        [s EXCEPT !.functions = FunctionsAppend(@,
            Function(function_name, args_type, Type_STRING, CodeGenerator(<<>>)))])

ResolveDefault(function_name, args_type, s) == Ret(Type_STRING, s)

\* mutant: only the definitions that precede the current statement are found
FunctionDefsBeforeCall(function_name) ==
    {i \in 1..Len(module_node.body) :
        /\ i < pc
        /\ module_node.body[i].kind = "FunctionDef"
        /\ module_node.body[i].name = function_name}

FunctionDefs(function_name) ==
    {i \in 1..Len(module_node.body) :
        /\ module_node.body[i].kind = "FunctionDef"
        /\ module_node.body[i].name = function_name}

FirstDef(function_name) ==
    CHOOSE i \in FunctionDefs(function_name) : \A j \in FunctionDefs(function_name) : i <= j

ResolveEvent(function_name, args_type, how, s, r, d) ==
    [ev |-> "resolve", name |-> function_name, args |-> args_type, how |-> how,
     out |-> IF r.err = NoError THEN r.type ELSE r.err.class, depth |-> d,
     before |-> s.functions, after |-> r.s.functions]

AnalysisAssignNode(vs, node, s, d) ==
    IF Len(node.targets) > 1
    THEN [variables |-> vs, err |-> Error("SyntaxNotSupportError", ""), s |-> s]
    ELSE LET target == node.targets[1] IN
         IF target.kind # "Name"
         THEN [variables |-> vs, err |-> Error("AttributeError", ""), s |-> s]
         ELSE LET r == GetType(node.value, s, d) IN
              IF r.err # NoError
              THEN [variables |-> vs, err |-> r.err, s |-> r.s]
              ELSE [variables |-> VariablesAppend(vs, Variable(target.id, r.type)),
                    err |-> NoError, s |-> r.s]

\* mutant: the inferred value is kept as it is, None included
ReturnTypeKeep(return_type, t) == t

ReturnType(return_type, t) == IF t = None THEN Type_VOID ELSE t

\* mutant: assignments of the body go to the analyzer's own table
AnalysisFunctionBodyShared(body, i, vs, return_type, s, d) ==
    IF i > Len(body)
    THEN [type |-> return_type, err |-> NoError, s |-> s, generator |-> CodeGenerator(vs)]
    ELSE LET node == body[i] IN
         IF node.kind = "Assign"
         THEN LET a == AnalysisAssignNode(s.variables, node, s, d) IN
              IF a.err # NoError
              THEN [type |-> None, err |-> a.err, s |-> a.s, generator |-> CodeGenerator(vs)]
              ELSE AnalysisFunctionBody(body, i + 1, vs, return_type,
                                        [a.s EXCEPT !.variables = a.variables], d)
         ELSE IF node.kind = "Return"
         THEN LET r == GetType(node.value, s, d) IN
              IF r.err # NoError
              THEN [type |-> None, err |-> r.err, s |-> r.s, generator |-> CodeGenerator(vs)]
              ELSE AnalysisFunctionBody(body, i + 1, vs, ReturnType(return_type, r.type), r.s, d)
         ELSE AnalysisFunctionBody(body, i + 1, vs, return_type, s, d)

AnalysisFunctionBody(body, i, vs, return_type, s, d) ==
    IF i > Len(body)
    THEN [type |-> return_type, err |-> NoError, s |-> s, generator |-> CodeGenerator(vs)]
    ELSE LET node == body[i] IN
         IF node.kind = "Assign"
         THEN LET a == AnalysisAssignNode(vs, node, s, d) IN
              IF a.err # NoError
              THEN [type |-> None, err |-> a.err, s |-> a.s, generator |-> CodeGenerator(vs)]
              ELSE AnalysisFunctionBody(body, i + 1, a.variables, return_type, a.s, d)
         ELSE IF node.kind = "Return"
         THEN LET r == GetType(node.value, s, d) IN
              IF r.err # NoError
              THEN [type |-> None, err |-> r.err, s |-> r.s, generator |-> CodeGenerator(vs)]
              ELSE AnalysisFunctionBody(body, i + 1, vs, ReturnType(return_type, r.type), r.s, d)
         ELSE AnalysisFunctionBody(body, i + 1, vs, return_type, s, d)

AnalysisFunction(function_node, args_type, s, d) ==
    IF d >= RecursionLimit
    THEN [type |-> None, err |-> Error("RecursionError", ""), s |-> s, generator |-> CodeGenerator(<<>>)]
    ELSE AnalysisFunctionBody(function_node.body, 1, <<>>, Type_VOID,
            Log(s, [ev |-> "walk", name |-> function_node.name, args |-> args_type,
                    depth |-> d + 1]),
            d + 1)

GetFunctionReturnType(function_name, args_type, s, d) ==
    IF IsSystemFunction(function_name)
    THEN LET r == ResolveSystem(function_name, s) IN
         [r EXCEPT !.s = Log(@, ResolveEvent(function_name, args_type, "system", s, r, d))]
    ELSE IF FunctionsHas(s.functions, function_name)
    THEN LET r == ResolveCached(FunctionsGet(s.functions, function_name),
                                function_name, args_type, s) IN
         [r EXCEPT !.s = Log(@, ResolveEvent(function_name, args_type, "cached", s, r, d))]
    ELSE IF FunctionDefs(function_name) # {}
    THEN LET node == module_node.body[FirstDef(function_name)]
             a == AnalysisFunction(node, args_type, s, d)
         IN  IF a.err # NoError
             THEN Raise(a.err, a.s)
             ELSE LET r == Ret(a.type,
                               [a.s EXCEPT !.functions = FunctionsAppend(@,
                                   Function(function_name, args_type, a.type, a.generator))])
                  IN [r EXCEPT !.s = Log(@, ResolveEvent(function_name, args_type,
                                                         "analysed", s, r, d))]
    ELSE LET r == ResolveDefault(function_name, args_type, s) IN
         [r EXCEPT !.s = Log(@, ResolveEvent(function_name, args_type, "default", s, r, d))]

\* mutant: the arguments are inferred from right to left
GetArgsTypeReversed(args, s, d) ==
    IF args = <<>>
    THEN [types |-> <<>>, err |-> NoError, s |-> s]
    ELSE LET t == GetArgsType(Tail(args), s, d) IN
         IF t.err # NoError
         THEN [types |-> <<>>, err |-> t.err, s |-> t.s]
         ELSE LET h == GetType(Head(args), t.s, d) IN
              [types |-> <<h.type>> \o t.types, err |-> h.err, s |-> h.s]

GetArgsType(args, s, d) ==
    IF args = <<>>
    THEN [types |-> <<>>, err |-> NoError, s |-> s]
    ELSE LET h == GetType(Head(args), s, d) IN
         IF h.err # NoError
         THEN [types |-> <<>>, err |-> h.err, s |-> h.s]
         ELSE LET t == GetArgsType(Tail(args), h.s, d) IN
              [types |-> <<h.type>> \o t.types, err |-> t.err, s |-> t.s]

GetType(node, s, d) ==
    IF node.kind = "BinOp"
    THEN LET l == GetType(node.left, s, d) IN
         IF l.err # NoError THEN l
         ELSE LET r == GetType(node.right, l.s, d) IN
              IF r.err # NoError THEN r
              ELSE LET b == GetTypeBinOp(node.op, l.type, r.type, r.s) IN
                   [b EXCEPT !.s = Log(@, [ev |-> "BinOp", op |-> node.op,
                        left |-> l.type, right |-> r.type,
                        out |-> IF b.err = NoError THEN b.type ELSE b.err.class])]
    ELSE IF node.kind = "UnaryOp" THEN GetTypeUnaryOp(node, s)
    ELSE IF node.kind = "Num" THEN Ret(Type_NUMBER, s)
    ELSE IF node.kind = "Str" THEN Ret(Type_STRING, s)
    ELSE IF node.kind = "List" THEN Ret(Type_LIST, s)
    ELSE IF node.kind = "Call"
    THEN LET a == GetArgsType(node.args, s, d) IN
         IF a.err # NoError THEN Raise(a.err, a.s)
         ELSE GetFunctionReturnType(node.func, a.types, a.s, d)
    ELSE IF node.kind = "Name" THEN GetTypeName(node, s)
    ELSE Ret(None, s)

(* ------------------------------ analysed modules ----------------------- *)
SeqsUpTo(S, n) == UNION {[1..k -> S] : k \in 0..n}

\* expression modules: x = <literal>; z = <expression>; def v(): pass
Operands ==
    {Num, Str, List, Compare, Name("x"), Name("y"), Call("v", <<>>),
     BinOp("Add", Num, Name("x"))}

Values ==
    Operands
    \cup {BinOp(op, l, r) : op \in {"Add", "Sub", "Mult"}, l \in Operands, r \in Operands}
    \cup {UnaryOp(o) : o \in Operands}

ExprModules ==
    {<<Assign(<<Name("x")>>, a), Assign(<<Name("z")>>, v), FunctionDef("v", <<>>, <<Pass>>)>> :
        a \in {Num, Str, List}, v \in Values}

\* variable modules: up to MaxAssigns top-level statements without calls
VarStmts ==
    {Assign(<<Name("x")>>, Num), Assign(<<Name("x")>>, Str), Assign(<<Name("x")>>, Compare),
     Assign(<<Name("y")>>, Name("x")), Assign(<<Name("z")>>, Name("x")),
     Assign(<<Name("a"), Name("b")>>, Num), Assign(<<Tuple>>, Tuple),
     ImportFrom, Expr(Num)}

VarModules == SeqsUpTo(VarStmts, MaxAssigns)

\* function modules: [def f] ; up to MaxStmts statements ; [def g | def print]
FDefs ==
    {FunctionDef("f", <<>>, <<Return(Num)>>),
     FunctionDef("f", <<>>, <<Return(Num), Return(Str)>>),
     FunctionDef("f", <<>>, <<Assign(<<Name("x")>>, Num), Return(Name("x"))>>),
     FunctionDef("f", <<>>, <<Return(NoValue)>>),
     FunctionDef("f", <<>>, <<Pass>>),
     FunctionDef("f", <<>>, <<Return(Compare)>>),
     FunctionDef("f", <<>>, <<Return(Call("f", <<>>))>>),
     FunctionDef("f", <<>>, <<Return(Call("g", <<>>))>>),
     FunctionDef("f", <<"a">>, <<Return(Name("a"))>>),
     FunctionDef("f", <<>>, <<Return(Name("x"))>>),
     FunctionDef("f", <<>>, <<Assign(<<Name("a"), Name("b")>>, Num), Return(Num)>>)}

GDefs ==
    {FunctionDef("g", <<>>, <<Return(Call("f", <<>>))>>),
     FunctionDef("g", <<>>, <<Return(Str)>>),
     FunctionDef("g", <<>>, <<Assign(<<Name("y")>>, Str), Return(Num)>>),
     FunctionDef("g", <<>>, <<Pass>>),
     FunctionDef("print", <<>>, <<Return(Num)>>)}

ArgLists == SeqsUpTo({Num, Str}, MaxArgs)

CallStmts ==
    {Expr(Call("f", args)) : args \in ArgLists}
    \cup {Expr(Call("g", <<>>)),
          Expr(Call("h", <<Num>>)), Expr(Call("h", <<Str>>)),
          Expr(Call("print", <<Num>>)), Expr(Call("print", <<Str>>)),
          Expr(Call("f", <<Call("g", <<>>)>>)),
          Expr(Call("f", <<Name("y")>>)),
          Expr(Call("h", <<Call("f", <<>>), Call("g", <<>>)>>)),
          Assign(<<Name("y")>>, Call("f", <<>>)),
          Assign(<<Name("x")>>, Str)}

Optional(S) == {<<>>} \cup {<<d>> : d \in S}

\* every definition of f with the definitions of g that return a string or
\* call f back; the other trailing definitions with two definitions of f
DefPairs ==
    (Optional(FDefs)
        \X Optional({FunctionDef("g", <<>>, <<Return(Call("f", <<>>))>>),
                     FunctionDef("g", <<>>, <<Return(Str)>>)}))
    \cup (Optional({FunctionDef("f", <<>>, <<Return(Num)>>),
                    FunctionDef("f", <<>>, <<Return(NoValue)>>)})
        \X Optional(GDefs))

FuncModules ==
    {p[1] \o body \o p[2] : p \in DefPairs, body \in SeqsUpTo(CallStmts, MaxStmts)}

Modules == ExprModules \cup VarModules \cup FuncModules

(* ------------------------------ the analyzer --------------------------- *)
self == [functions |-> functions, variables |-> variables, trace |-> trace]

Init ==
    /\ module_node \in {[body |-> b] : b \in Modules}
    /\ functions = <<>>
    /\ variables = <<>>
    /\ pc = 1
    /\ err = NoError
    /\ trace = <<>>
    /\ generator = FALSE

Running == err = NoError /\ pc <= Len(module_node.body)

AnalysisAssign ==
    /\ Running
    /\ module_node.body[pc].kind = "Assign"
    /\ LET a == AnalysisAssignNode(variables, module_node.body[pc], self, 0) IN
       /\ err' = a.err
       /\ variables' = a.variables
       /\ functions' = a.s.functions
       /\ trace' = a.s.trace
       /\ pc' = IF a.err = NoError THEN pc + 1 ELSE pc
    /\ UNCHANGED <<module_node, generator>>

AnalysisExprCall ==
    /\ Running
    /\ module_node.body[pc].kind = "Expr"
    /\ module_node.body[pc].value.kind = "Call"
    /\ LET r == GetType(module_node.body[pc].value, self, 0) IN
       /\ err' = r.err
       /\ functions' = r.s.functions
       /\ variables' = r.s.variables
       /\ trace' = r.s.trace
       /\ pc' = IF r.err = NoError THEN pc + 1 ELSE pc
    /\ UNCHANGED <<module_node, generator>>

AnalysisExprOther ==
    /\ Running
    /\ module_node.body[pc].kind = "Expr"
    /\ module_node.body[pc].value.kind # "Call"
    /\ pc' = pc + 1
    /\ UNCHANGED <<module_node, functions, variables, err, trace, generator>>

AnalysisImportFrom ==
    /\ Running
    /\ module_node.body[pc].kind = "ImportFrom"
    /\ pc' = pc + 1
    /\ UNCHANGED <<module_node, functions, variables, err, trace, generator>>

AnalysisOther ==
    /\ Running
    /\ module_node.body[pc].kind \notin {"Assign", "Expr", "ImportFrom"}
    /\ pc' = pc + 1
    /\ UNCHANGED <<module_node, functions, variables, err, trace, generator>>

AnalysisReturn ==
    /\ err = NoError
    /\ pc = Len(module_node.body) + 1
    /\ ~generator
    /\ generator' = TRUE
    /\ UNCHANGED <<module_node, functions, variables, pc, err, trace>>

Next ==
    \/ AnalysisAssign
    \/ AnalysisExprCall
    \/ AnalysisExprOther
    \/ AnalysisImportFrom
    \/ AnalysisOther
    \/ AnalysisReturn

Spec == Init /\ [][Next]_vars

(* ------------------------------ properties ----------------------------- *)
WalkEvents == {i \in DOMAIN trace : trace[i].ev = "walk"}
ResolveEvents == {i \in DOMAIN trace : trace[i].ev = "resolve"}
BinOpEvents == {i \in DOMAIN trace : trace[i].ev = "BinOp"}

IsPrefix(a, b) == Len(a) <= Len(b) /\ SubSeq(b, 1, Len(a)) = a

Signatures == {<<trace[i].name, trace[i].args>> : i \in WalkEvents}

DefBody(function_name) == module_node.body[FirstDef(function_name)].body

\* C1: a function-body pass is started at most once per (name, argument
\* types) signature, and the nesting depth of body passes never exceeds the
\* number of distinct signatures walked.
C1_BodyPassOncePerSignature ==
    /\ \A i, j \in WalkEvents :
          (trace[i].name = trace[j].name /\ trace[i].args = trace[j].args) => i = j
    /\ \A i \in WalkEvents : trace[i].depth <= Cardinality(Signatures)

\* event i resolves a signature that event j resolved first by walking the body
SecondResolution(j, i) ==
    /\ j \in ResolveEvents /\ i \in ResolveEvents /\ j < i
    /\ trace[j].how = "analysed"
    /\ trace[i].name = trace[j].name
    /\ trace[i].args = trace[j].args

\* C2: resolving an already resolved signature of a user function returns the
\* type of the first resolution, starts no body pass and leaves the Function
\* Table as it was; every earlier Function Table is a prefix of the later ones,
\* so a cached entry never changes.
C2_ResolveIdempotent ==
    /\ \A j, i \in ResolveEvents :
          SecondResolution(j, i) =>
             /\ trace[i].out = trace[j].out
             /\ trace[i].after = trace[i].before
             /\ \A k \in WalkEvents : (j < k /\ k < i) => trace[k].name # trace[i].name
    /\ \A i \in ResolveEvents :
          /\ IsPrefix(trace[i].before, trace[i].after)
          /\ IsPrefix(trace[i].after, functions)

C2_Witness ==
    \E j, i \in ResolveEvents :
        /\ SecondResolution(j, i)
        /\ trace[i].out = Type_NUMBER
        /\ Len(functions) = 1

\* a call to a cached user function with other argument types than the cached ones
Mismatch(e) ==
    /\ ~IsSystemFunction(e.name)
    /\ FunctionsHas(e.before, e.name)
    /\ FunctionsGet(e.before, e.name).args_type # e.args

\* C3: a call to a cached user function f whose argument types differ from
\* the cached ones raises ParamTypeMismatchError naming f, ends the run, and
\* the Function Table keeps its single entry for f.
C3_MismatchRaises ==
    \A i \in ResolveEvents :
        Mismatch(trace[i]) =>
           /\ trace[i].out = "ParamTypeMismatchError"
           /\ err = Error("ParamTypeMismatchError", trace[i].name)
           /\ i = Len(trace)
           /\ functions = trace[i].before
           /\ Cardinality({k \in DOMAIN functions : functions[k].name = trace[i].name}) = 1

C3_Witness ==
    /\ err = Error("ParamTypeMismatchError", "f")
    /\ \E i \in ResolveEvents :
          /\ Mismatch(trace[i])
          /\ trace[i].args = <<Type_STRING>>
          /\ FunctionsGet(functions, "f").args_type = <<Type_NUMBER>>

\* C4: the body `x = 1; return x` resolves to NUMBER whatever the module's
\* Variable Table holds for x.
C4_BodyNameFromOwnTable ==
    \A i \in WalkEvents :
        DefBody(trace[i].name) = <<Assign(<<Name("x")>>, Num), Return(Name("x"))>> =>
            \E j \in ResolveEvents :
                /\ j > i
                /\ trace[j].name = trace[i].name
                /\ trace[j].how = "analysed"
                /\ trace[j].out = Type_NUMBER

LiteralKinds == {"Num", "Str", "List"}
LiteralType(node) ==
    IF node.kind = "Num" THEN Type_NUMBER
    ELSE IF node.kind = "Str" THEN Type_STRING ELSE Type_LIST

Returns(body) == {k \in DOMAIN body : body[k].kind = "Return"}
FirstReturn(body) == body[CHOOSE k \in Returns(body) : \A m \in Returns(body) : k <= m]

\* C5: with several return statements in a body, the cached return type is
\* the type of the first one.
C5_FirstReturnWins ==
    \A i \in ResolveEvents :
        (/\ trace[i].how = "analysed"
         /\ Cardinality(Returns(DefBody(trace[i].name))) > 1
         /\ FirstReturn(DefBody(trace[i].name)).value.kind \in LiteralKinds) =>
            /\ trace[i].out = LiteralType(FirstReturn(DefBody(trace[i].name)).value)
            /\ FunctionsGet(trace[i].after, trace[i].name).return_type =
                   LiteralType(FirstReturn(DefBody(trace[i].name)).value)

\* C6: an "add" node over operand types l, r yields NUMBER iff both are
\* NUMBER and STRING otherwise; it never raises.
C6_AddRule ==
    \A i \in BinOpEvents :
        (trace[i].op = "Add" /\ trace[i].left \in Types /\ trace[i].right \in Types) =>
            trace[i].out = IF trace[i].left = Type_NUMBER /\ trace[i].right = Type_NUMBER
                           THEN Type_NUMBER ELSE Type_STRING

C6_Witness ==
    /\ err = NoError
    /\ \E i \in BinOpEvents :
          /\ trace[i].op = "Add"
          /\ trace[i].left = Type_VOID
          /\ trace[i].right = Type_LIST
          /\ trace[i].out = Type_STRING

\* C7: a non-add node yields NUMBER when both operand types are NUMBER and
\* raises CompileError, naming the operator and ending the run, when one is
\* not; it never yields STRING.
C7_NonAddRule ==
    \A i \in BinOpEvents :
        trace[i].op # "Add" =>
           /\ trace[i].out # Type_STRING
           /\ (trace[i].left \in Types /\ trace[i].right \in Types) =>
                 IF trace[i].left = Type_NUMBER /\ trace[i].right = Type_NUMBER
                 THEN trace[i].out = Type_NUMBER
                 ELSE /\ trace[i].out = "CompileError"
                      /\ err = Error("CompileError", trace[i].op)
                      /\ i = Len(trace)

C7_Witness ==
    /\ err = Error("CompileError", "Sub")
    /\ \E i \in BinOpEvents :
          /\ trace[i].op = "Sub"
          /\ trace[i].left = Type_NUMBER
          /\ trace[i].right = Type_LIST
          /\ trace[i].out = "CompileError"

\* a call to a name that is no built-in, not cached and not defined at top level
UnknownCallee(e) ==
    /\ ~IsSystemFunction(e.name)
    /\ ~FunctionsHas(e.before, e.name)
    /\ FunctionDefs(e.name) = {}

Assignments(name, k) ==
    {j \in 1..(k - 1) :
        /\ module_node.body[j].kind = "Assign"
        /\ Len(module_node.body[j].targets) = 1
        /\ module_node.body[j].targets[1].kind = "Name"
        /\ module_node.body[j].targets[1].id = name}

RECURSIVE LastType(_, _)
\* the type bound to `name` by the last assignment before statement k, by
\* source order alone
LastType(name, k) ==
    IF Assignments(name, k) = {} THEN "unbound"
    ELSE LET j == CHOOSE a \in Assignments(name, k) : \A b \in Assignments(name, k) : b <= a
             v == module_node.body[j].value
         IN  IF v.kind \in LiteralKinds THEN LiteralType(v)
             ELSE IF v.kind = "Name" THEN LastType(v.id, j)
             ELSE "other"

VarNames == {"x", "y", "z", "a"}

\* C9: at module level a name has the type given by the most recent
\* assignment that precedes the current statement; a type inferred from an
\* earlier binding is not changed by a reassignment.
C9_LaterBindingWins ==
    \A n \in VarNames :
        LastType(n, pc) \in Types =>
           /\ VariablesHas(variables, n)
           /\ VariablesGet(variables, n).var_type = LastType(n, pc)
           /\ GetType(Name(n), self, 0) = Ret(LastType(n, pc), self)

C9_Witness ==
    /\ pc = 4
    /\ SubSeq(module_node.body, 1, 3) =
          <<Assign(<<Name("x")>>, Num), Assign(<<Name("y")>>, Name("x")),
            Assign(<<Name("x")>>, Str)>>
    /\ VariablesGet(variables, "x").var_type = Type_STRING
    /\ VariablesGet(variables, "y").var_type = Type_NUMBER

\* C10: every Variable Table entry's type and every Function Table entry's
\* return type is one of the four types, and no assignment of an expression
\* outside the supported subset completes.
C10_EveryNodeTyped ==
    /\ \A i \in DOMAIN variables : variables[i].var_type \in Types
    /\ \A i \in DOMAIN functions : functions[i].return_type \in Types
    /\ \A k \in 1..(pc - 1) :
          module_node.body[k].kind = "Assign" =>
              module_node.body[k].value.kind \notin {"Compare", "Tuple"}

\* an assignment statement with several targets or with a tuple as its target
MultiTarget(node) ==
    /\ node.kind = "Assign"
    /\ \/ Len(node.targets) > 1
       \/ node.targets[1].kind = "Tuple"

\* C11: a top-level assignment with more than one target, the tuple form
\* `a, b = 1, 2` included, never completes and fails with
\* SyntaxNotSupportError, leaving the Variable Table as it was.
C11_MultiTargetRaises ==
    /\ \A k \in 1..(pc - 1) : ~MultiTarget(module_node.body[k])
    /\ (err # NoError /\ MultiTarget(module_node.body[pc])) =>
          err.class = "SyntaxNotSupportError"

\* a top-level statement `z = <unary operator> <operand>`
UnaryAssign(node) ==
    /\ node.kind = "Assign"
    /\ Len(node.targets) = 1
    /\ node.targets[1].kind = "Name"
    /\ node.value.kind = "UnaryOp"

\* C12: a unary operation over a numeric literal yields NUMBER without an
\* error, and over a string or list literal raises SyntaxNotSupportError.
C12_UnaryRule ==
    /\ pc <= Len(module_node.body)
    /\ UnaryAssign(module_node.body[pc])
    /\ err # NoError
    => /\ module_node.body[pc].value.operand.kind # "Num"
       /\ module_node.body[pc].value.operand.kind \in {"Str", "List"} =>
             err.class = "SyntaxNotSupportError"

\* C13: resolving a built-in name returns the oracle's type for every
\* argument-type list, leaves the Function Table as it was, and no body of
\* that name is ever walked nor cached.
C13_BuiltinRule ==
    /\ \A i \in ResolveEvents :
          IsSystemFunction(trace[i].name) =>
             /\ trace[i].out = SystemFunctionReturnType(trace[i].name)
             /\ trace[i].after = trace[i].before
    /\ \A i \in WalkEvents : ~IsSystemFunction(trace[i].name)
    /\ \A k \in DOMAIN functions : ~IsSystemFunction(functions[k].name)

C13_Witness ==
    /\ err = NoError
    /\ \E k \in DOMAIN module_node.body :
          /\ module_node.body[k].kind = "FunctionDef"
          /\ module_node.body[k].name = "print"
    /\ \E i, j \in ResolveEvents :
          /\ i < j
          /\ trace[i].name = "print" /\ trace[j].name = "print"
          /\ trace[i].args # trace[j].args
          /\ trace[j].out = Type_VOID

\* the top-level definitions of `name`, by source text alone
TopLevelDefs(name) ==
    {k \in DOMAIN module_node.body :
        /\ module_node.body[k].kind = "FunctionDef"
        /\ module_node.body[k].name = name}

TopLevelBody(name) ==
    module_node.body[CHOOSE k \in TopLevelDefs(name) : \A m \in TopLevelDefs(name) : k <= m].body

Entries(fs, name) == {k \in DOMAIN fs : fs[k].name = name}

\* a returning call to a user function that is defined at top level and not yet cached
FirstCall(e) ==
    /\ ~IsSystemFunction(e.name)
    /\ ~FunctionsHas(e.before, e.name)
    /\ TopLevelDefs(e.name) # {}

\* C14: the first returning call (argument types A) to a defined, not yet
\* cached user function f appends the one entry (f, A) holding the returned
\* type, which for a body `return <literal>` is the literal's type, wherever
\* the definition stands; a function that was never called has no entry.
C14_LazyAnalysis ==
    /\ \A i \in ResolveEvents :
          FirstCall(trace[i]) =>
             /\ Len(trace[i].after) > Len(trace[i].before)
             /\ trace[i].after[Len(trace[i].after)].name = trace[i].name
             /\ trace[i].after[Len(trace[i].after)].args_type = trace[i].args
             /\ trace[i].after[Len(trace[i].after)].return_type = trace[i].out
             /\ Cardinality(Entries(trace[i].after, trace[i].name)) = 1
             /\ (/\ Len(TopLevelBody(trace[i].name)) = 1
                 /\ TopLevelBody(trace[i].name)[1].kind = "Return"
                 /\ TopLevelBody(trace[i].name)[1].value.kind \in LiteralKinds) =>
                    trace[i].out = LiteralType(TopLevelBody(trace[i].name)[1].value)
    /\ \A k \in DOMAIN functions :
          \E i \in ResolveEvents : trace[i].name = functions[k].name

C14_Witness ==
    /\ generator
    /\ err = NoError
    /\ TopLevelDefs("f") # {} /\ ~FunctionsHas(functions, "f")
    /\ Len(module_node.body) = 3
    /\ module_node.body[2] = Expr(Call("g", <<>>))
    /\ TopLevelDefs("g") = {3}
    /\ Len(functions) = 1
    /\ functions[1].name = "g" /\ functions[1].return_type = Type_STRING

\* C15: for `def f(a): return a` a call with argument types <<t>> resolves
\* to t and caches (f, <<t>>) -> t, whatever the module's table holds for a.
C15_ParameterTypedByCall ==
    \A i \in WalkEvents :
        (/\ TopLevelBody(trace[i].name) = <<Return(Name("a"))>>
         /\ Len(trace[i].args) = 1) =>
            \E j \in ResolveEvents :
                /\ j > i
                /\ trace[j].name = trace[i].name
                /\ trace[j].args = trace[i].args
                /\ trace[j].out = trace[i].args[1]
                /\ FunctionsGet(trace[j].after, trace[j].name).return_type = trace[i].args[1]

\* C16: a reference to a name without an earlier assignment in its own scope
\* fails the run: no top-level assignment from an unbound name completes, and
\* the body `return x`, which assigns nothing, ends the run with the
\* unresolved-name failure.
C16_UnresolvedNameFails ==
    /\ \A k \in 1..(pc - 1) :
          (/\ module_node.body[k].kind = "Assign"
           /\ ~MultiTarget(module_node.body[k])
           /\ module_node.body[k].value.kind = "Name") =>
              LastType(module_node.body[k].value.id, k) # "unbound"
    /\ \A i \in WalkEvents :
          TopLevelBody(trace[i].name) = <<Return(Name("x"))>> =>
              err.class = "UnresolvedName"

\* C17: the Function Table never holds two entries of one name, and a
\* resolution that found an entry for its name leaves the table as it was,
\* at every nesting depth.
C17_OneEntryPerName ==
    /\ \A k, m \in DOMAIN functions : functions[k].name = functions[m].name => k = m
    /\ \A i \in ResolveEvents :
          /\ \A k, m \in DOMAIN trace[i].after :
                trace[i].after[k].name = trace[i].after[m].name => k = m
          /\ FunctionsHas(trace[i].before, trace[i].name) =>
                trace[i].after = trace[i].before

C17_Witness ==
    /\ Len(functions) = 2
    /\ \E i, j \in ResolveEvents :
          /\ trace[i].depth = 1 /\ ~FunctionsHas(trace[i].before, trace[i].name)
          /\ trace[j].depth = 0 /\ FunctionsHas(trace[j].before, trace[j].name)
          /\ trace[i].name = trace[j].name

\* the events the current step adds, and among them the resolutions made
\* for the calls of the statement's own expression
NewEvents == SubSeq(trace', Len(trace) + 1, Len(trace'))
IsTopResolve(e) == e.ev = "resolve" /\ e.depth = 0
TopResolves == SelectSeq(NewEvents, IsTopResolve)

RECURSIVE CallOrder(_)
RECURSIVE CallOrderArgs(_)
\* the callee names of an expression, arguments left to right before the callee
CallOrder(node) ==
    IF node.kind = "Call" THEN CallOrderArgs(node.args) \o <<node.func>>
    ELSE IF node.kind = "BinOp" THEN CallOrder(node.left) \o CallOrder(node.right)
    ELSE <<>>

CallOrderArgs(args) ==
    IF args = <<>> THEN <<>> ELSE CallOrder(Head(args)) \o CallOrderArgs(Tail(args))

\* the statement at pc infers an expression
Infers(node) ==
    \/ node.kind = "Expr" /\ node.value.kind = "Call"
    \/ node.kind = "Assign" /\ ~MultiTarget(node)

UnboundArg(call) ==
    /\ call.kind = "Call"
    /\ \E k \in DOMAIN call.args :
          call.args[k].kind = "Name" /\ ~VariablesHas(variables, call.args[k].id)

\* C18: the calls of a statement's expression are resolved arguments first,
\* left to right, each starting from the Function Table the previous one
\* left, the callee last; when an argument fails the callee is not resolved
\* and gets no entry.
C18_ArgumentsBeforeCallee ==
    [][(Running /\ Infers(module_node.body[pc])) =>
          LET value == module_node.body[pc].value
              rs == TopResolves
          IN  /\ IsPrefix([i \in DOMAIN rs |-> rs[i].name], CallOrder(value))
              /\ err' = NoError => Len(rs) = Len(CallOrder(value))
              /\ \A i \in 1..(Len(rs) - 1) : rs[i].after = rs[i + 1].before
              /\ Len(rs) > 0 => rs[1].before = functions
              /\ (Len(rs) > 0 /\ err' = NoError) => rs[Len(rs)].after = functions'
              /\ UnboundArg(value) =>
                    /\ err'.class = "UnresolvedName"
                    /\ Len(rs) < Len(CallOrder(value))
                    /\ Entries(functions', value.func) = Entries(functions, value.func)
      ]_vars

C18_Witness ==
    /\ err = NoError
    /\ pc > 1
    /\ module_node.body[pc - 1] = Expr(Call("h", <<Call("f", <<>>), Call("g", <<>>)>>))
    /\ Len(functions) = 2
    /\ functions[1].name = "f" /\ functions[2].name = "g"
    /\ \E i, j, k \in ResolveEvents :
          /\ i < j /\ j < k
          /\ trace[i].name = "f" /\ trace[j].name = "g" /\ trace[k].name = "h"

SimpleAssigns(body) == {j \in DOMAIN body : body[j].kind = "Assign" /\ ~MultiTarget(body[j])}
AssignedNames(body) == {body[j].targets[1].id : j \in SimpleAssigns(body)}

\* C19: a bare call statement leaves the module's Variable Table as it was,
\* an assignment changes no entry but its target's, and the names assigned in
\* an analysed body are held by the new Function entry's own table.
C19_CallsKeepModuleTable ==
    [][Running =>
          /\ module_node.body[pc].kind = "Expr" => variables' = variables
          /\ module_node.body[pc].kind = "Assign" =>
                /\ \A i \in DOMAIN variables :
                      (MultiTarget(module_node.body[pc])
                         \/ variables[i].name # module_node.body[pc].targets[1].id) =>
                            /\ VariablesHas(variables', variables[i].name)
                            /\ VariablesGet(variables', variables[i].name) = variables[i]
                /\ \A i \in DOMAIN variables' :
                      (MultiTarget(module_node.body[pc])
                         \/ variables'[i].name # module_node.body[pc].targets[1].id) =>
                            VariablesHas(variables, variables'[i].name)
          /\ \A k \in (Len(functions) + 1)..Len(functions') :
                {functions'[k].generator.variables[j].name :
                    j \in DOMAIN functions'[k].generator.variables}
                  = AssignedNames(TopLevelBody(functions'[k].name))
      ]_vars

C19_Witness ==
    /\ err = NoError
    /\ pc > 1
    /\ module_node.body[pc - 1].kind = "Expr"
    /\ ~VariablesHas(variables, "y")
    /\ \E k \in DOMAIN functions :
          /\ functions[k].name = "g"
          /\ functions[k].generator.variables = <<Variable("y", Type_STRING)>>

NoReturnValue(body) == \A k \in Returns(body) : body[k].value.kind = "NoneType"

\* C20: a user function whose body has no return statement, or only return
\* statements without an expression, is resolved and cached as VOID.
C20_NoReturnIsVoid ==
    \A i \in ResolveEvents :
        (FirstCall(trace[i]) /\ NoReturnValue(TopLevelBody(trace[i].name))) =>
           /\ trace[i].out = Type_VOID
           /\ FunctionsGet(trace[i].after, trace[i].name).return_type = Type_VOID

C20_Witness ==
    /\ err = NoError
    /\ TopLevelDefs("f") # {} /\ TopLevelDefs("g") # {}
    /\ TopLevelBody("f") = <<Return(NoValue)>>
    /\ TopLevelBody("g") = <<Pass>>
    /\ FunctionsHas(functions, "f") /\ FunctionsGet(functions, "f").return_type = Type_VOID
    /\ FunctionsHas(functions, "g") /\ FunctionsGet(functions, "g").return_type = Type_VOID

====
